---------------------------- MODULE Spec2Model ----------------------------
(***************************************************************************)
(* Model of the Truenat dashboard data tool (src/utils.py, src/app.py):    *)
(* the CSV loader, the four aggregation functions and the session state    *)
(* of the Streamlit script that calls them.                                *)
(*                                                                         *)
(* Values                                                                  *)
(*   - a timestamp is the ordinal of its day (days since 2022-01-01);      *)
(*     the time of day takes part in no bucket key and is left out;        *)
(*     NaT is the null timestamp.                                          *)
(*   - a null cell (NaN / None) of a text column is the value Null.        *)
(*   - a percentage is kept in hundredths of a percent (66.67 is 6667),    *)
(*     which is exactly what round(x, 2) retains.                          *)
(***************************************************************************)
EXTENDS Integers, Sequences, FiniteSets, TLC

VARIABLES
    pc,                   \* where the run is: "start", then "done" after a call
    uploaded_files,       \* the argument of load_and_process_csv
    all_data,             \* its local all_data: the tables of the files it kept
    loaded,               \* the value load_and_process_csv returned
    data,                 \* st.session_state.data
    profile_ids,          \* st.session_state.profile_ids
    lab_names,            \* st.session_state.lab_names
    selected_profile_id,  \* st.session_state.selected_profile_id
    selected_lab,         \* st.session_state.selected_lab
    current_page,         \* st.session_state.current_page
    cache,                \* the lru_cache of profile_id_analysis
    view                  \* the last aggregation call: its arguments and result

session == <<data, profile_ids, lab_names, selected_profile_id, selected_lab, current_page>>

vars == <<pc, uploaded_files, all_data, loaded, session, cache, view>>

-----------------------------------------------------------------------------
(* Bounds of the model                                                     *)

MaxLines == 4     \* lines in one upload, over all its files
MaxRows == 3      \* rows of a table handed to an aggregation function
MaxLots == 22     \* lots of a table handed to lot_specific_analysis
MaxRuns == 12     \* records of one lab in a table handed to profile_id_analysis
MaxWidth == 11    \* columns of a file

-----------------------------------------------------------------------------
(* Null values                                                             *)

NaT == -1
Null == "<null>"
None == "<None>"

-----------------------------------------------------------------------------
(* Calendar: what pandas' Timestamp, strftime and strptime compute.        *)

\* the years the calendar covers; ordinal 0 is 2022-01-01
Years == 2022..2025

IsLeap(y) == (y % 4 = 0 /\ y % 100 # 0) \/ y % 400 = 0

DaysInYear(y) == IF IsLeap(y) THEN 366 ELSE 365

DaysInMonth(y, m) ==
    IF m = 2 THEN (IF IsLeap(y) THEN 29 ELSE 28)
    ELSE IF m \in {4, 6, 9, 11} THEN 30 ELSE 31

RECURSIVE DaysBeforeYear(_)
DaysBeforeYear(y) ==
    IF y <= 2022 THEN 0 ELSE DaysBeforeYear(y - 1) + DaysInYear(y - 1)

RECURSIVE DaysBeforeMonth(_, _)
DaysBeforeMonth(y, m) ==
    IF m <= 1 THEN 0 ELSE DaysBeforeMonth(y, m - 1) + DaysInMonth(y, m - 1)

ValidDate(y, m, d) ==
    /\ y \in Years
    /\ m \in 1..12
    /\ d >= 1
    /\ d <= DaysInMonth(y, m)

\* Timestamp(year, month, day) as an ordinal day
ToOrdinal(y, m, d) == DaysBeforeYear(y) + DaysBeforeMonth(y, m) + (d - 1)

YearOf(o) == CHOOSE y \in Years :
    DaysBeforeYear(y) <= o /\ o < DaysBeforeYear(y) + DaysInYear(y)

\* 0-based day of the year (tm_yday - 1)
YDay(o) == o - DaysBeforeYear(YearOf(o))

MonthOf(o) == CHOOSE m \in 1..12 :
    /\ DaysBeforeMonth(YearOf(o), m) <= YDay(o)
    /\ YDay(o) < DaysBeforeMonth(YearOf(o), m) + DaysInMonth(YearOf(o), m)

DayOf(o) == YDay(o) - DaysBeforeMonth(YearOf(o), MonthOf(o)) + 1

\* %w: day of the week, Sunday = 0 (2022-01-01 was a Saturday)
Weekday(o) == (o + 6) % 7

\* strftime('%Y-%m'): the parts of the key, <<year, month>>
StrftimeMonth(o) == <<YearOf(o), MonthOf(o)>>

\* %U: week of the year, Sunday first; the days before the first Sunday are week 0
WeekU(o) == (YDay(o) + 7 - Weekday(o)) \div 7

\* strftime('%Y-%U'): the parts of the key, <<year, week>>
StrftimeWeek(o) == <<YearOf(o), WeekU(o)>>

\* strftime('%d-%m-%Y'): the parts of the text, <<day, month, year>>
StrftimeDMY(o) == <<DayOf(o), MonthOf(o), YearOf(o)>>

-----------------------------------------------------------------------------
(* Cells of an input file.  Column 0 holds a date text, modelled by its    *)
(* layout f and its numbers: "dmy" is the text a-b-y HH:MM:SS, "iso" is    *)
(* y-a-b HH:MM:SS, "text" is a text that is no date ("not-a-date", or a    *)
(* header name), "nan" is an empty cell.  Every other column holds a text  *)
(* or is empty (Null).                                                     *)

DateCell(f, a, b, y) == [f |-> f, a |-> a, b |-> b, y |-> y]
TextCell == DateCell("text", 0, 0, 0)
NanCell == DateCell("nan", 0, 0, 0)

\* column_mapping: the 0-based source position of each field
column_mapping ==
    [Test_date_time |-> 0, Profile_id |-> 1, Test_result |-> 3, Test_status |-> 4,
     Lab_name |-> 5, Truelab_id |-> 8, Lot |-> 9]

FieldNames == DOMAIN column_mapping

required_columns == {column_mapping[n] : n \in FieldNames}

\* the texts of the six other fields of a data line
Raw(profile, result, status) ==
    [Profile_id |-> profile, Test_result |-> result, Test_status |-> status,
     Lab_name |-> "A", Truelab_id |-> "T1", Lot |-> "L1"]

RawRow == Raw("P1", "Detected", "Invalid")

\* A line of a file is [t, cell]: a line of column names ("names"), a line
\* of empty cells ("blank"), or a data line whose date text is `cell` and
\* whose other texts are `raw`.
\* CellAt is the cell at 0-based position j of the line.
CellAt(line, j) ==
    IF j = 0 THEN line.cell
    ELSE CASE line.t = "names" -> "name"
           [] line.t = "blank" -> Null
           [] OTHER ->
                IF \E n \in DOMAIN line.raw : column_mapping[n] = j
                THEN line.raw[CHOOSE n \in DOMAIN line.raw : column_mapping[n] = j]
                ELSE "x"

\* the lines of a file as sequences of `width` cells
Cells(file) ==
    [k \in DOMAIN file.lines |->
        [j \in 1..file.width |-> CellAt(file.lines[k], j - 1)]]

\* an empty cell (read as NaN) at 1-based position j of a line
IsBlank(cell, j) == IF j = 1 THEN cell.f = "nan" ELSE cell = Null

-----------------------------------------------------------------------------
(* pd.read_csv.  A file is [handle, width, lines]: a "buffer" (an UploadedFile,   *)
(* a BytesIO) is read from its current position and left at its end, a     *)
(* "path" is opened anew by every read.  The result is "raise" or a frame. *)

Raise == [raise |-> TRUE, columns |-> <<>>, rows |-> <<>>]

Frame(columns, rows) == [raise |-> FALSE, columns |-> columns, rows |-> rows]

\* the lines a read still finds
Available(file, consumed) ==
    IF file.handle = "buffer" /\ consumed THEN <<>> ELSE Cells(file)

\* rows of a frame keep the number of the line they came from
RowsFrom(lines, first) ==
    [k \in 1..(Len(lines) - first + 1) |->
        [cells |-> lines[k + first - 1], line |-> k + first - 1]]

\* header=0 (the default): the first line names the columns, an empty name
\* becomes "Unnamed: j"; header=None: the columns are numbered and every
\* line is a row
read_csv(file, consumed, header_none) ==
    LET lines == Available(file, consumed)
    IN  IF lines = <<>> THEN Raise     \* EmptyDataError
        ELSE IF header_none
        THEN Frame([j \in 1..Len(lines[1]) |-> "int"], RowsFrom(lines, 1))
        ELSE Frame([j \in 1..Len(lines[1]) |->
                        IF IsBlank(lines[1][j], j) THEN "Unnamed" ELSE "name"],
                   RowsFrom(lines, 2))

\* line 45: every column name starts with 'Unnamed', or every one is an int
HeaderMissing(frame) ==
    \/ \A j \in DOMAIN frame.columns : frame.columns[j] = "Unnamed"
    \/ \A j \in DOMAIN frame.columns : frame.columns[j] = "int"

\* lines 36-51: the read, and the second read when no header was found
ReadFile(file) ==
    LET first == read_csv(file, FALSE, FALSE)
    IN  IF first.raise THEN Raise
        ELSE IF HeaderMissing(first) THEN read_csv(file, TRUE, TRUE)
        ELSE first

-----------------------------------------------------------------------------
(* Lines 53-83: the seven columns by position.                             *)

\* data.iloc[:, required_columns] raises IndexError when a position is out
\* of bounds
IlocRaises(frame) ==
    \E c \in required_columns : c >= Len(frame.columns)

\* lines 67-69: select and rename
SelectColumns(frame, fidx) ==
    [k \in DOMAIN frame.rows |->
        [n \in FieldNames |-> frame.rows[k].cells[column_mapping[n] + 1]]
        @@ [src |-> <<fidx, frame.rows[k].line>>]]

\* the fallback taking the k-th column for the k-th field instead of the
\* field's own position
FallbackColumnsByRank(frame, fidx) ==
    [k \in DOMAIN frame.rows |->
        [n \in FieldNames |->
            LET rank == Cardinality({c \in required_columns : c < column_mapping[n]})
            IN  IF rank < Len(frame.columns)
                THEN frame.rows[k].cells[rank + 1]
                ELSE Null]
        @@ [src |-> <<fidx, frame.rows[k].line>>]]

\* lines 76-81: field by field, None for a position beyond the width
FallbackColumns(frame, fidx) ==
    [k \in DOMAIN frame.rows |->
        [n \in FieldNames |->
            IF column_mapping[n] < Len(frame.columns)
            THEN frame.rows[k].cells[column_mapping[n] + 1]
            ELSE Null]
        @@ [src |-> <<fidx, frame.rows[k].line>>]]

MapColumns(frame, fidx) ==
    IF IlocRaises(frame) THEN FallbackColumns(frame, fidx)
    ELSE SelectColumns(frame, fidx)

\* lines 35-87: one pass of the loop; <<>> when the file is skipped, else
\* <<table>>, the element appended to all_data
ProcessFile(file, fidx) ==
    LET frame == ReadFile(file)
    IN  IF frame.raise THEN <<>>
        ELSE <<[file |-> fidx, rows |-> MapColumns(frame, fidx)]>>

RECURSIVE AllData(_, _)
AllData(files, fidx) ==
    IF fidx > Len(files) THEN <<>>
    ELSE ProcessFile(files[fidx], fidx) \o AllData(files, fidx + 1)

\* pd.concat(all_data, ignore_index=True)
RECURSIVE concat(_)
concat(tables) ==
    IF tables = <<>> THEN <<>> ELSE Head(tables).rows \o concat(Tail(tables))

-----------------------------------------------------------------------------
(* Dates.                                                                  *)

\* pd.to_datetime(text, format='%d-%m-%Y %H:%M:%S'): NaT stands for the
\* ValueError of a text that does not match
StrptimeDayFirst(cell) ==
    IF cell.f = "dmy" /\ ValidDate(cell.y, cell.b, cell.a)
    THEN ToOrdinal(cell.y, cell.b, cell.a)
    ELSE NaT

\* pd.to_datetime(text) with no format and dayfirst=False: a delimited
\* a-b-y text is read month first, and day first only when a is no month;
\* NaT stands for the text that cannot be parsed (errors='coerce'; without
\* it, the ValueError)
to_datetime(cell) ==
    CASE cell.f = "iso" ->
            IF ValidDate(cell.y, cell.a, cell.b)
            THEN ToOrdinal(cell.y, cell.a, cell.b) ELSE NaT
      [] cell.f = "dmy" ->
            IF ValidDate(cell.y, cell.a, cell.b)
            THEN ToOrdinal(cell.y, cell.a, cell.b)
            ELSE IF ValidDate(cell.y, cell.b, cell.a)
            THEN ToOrdinal(cell.y, cell.b, cell.a)
            ELSE NaT
      [] OTHER -> NaT

\* lines 11-23: the three attempts in their order
parse_date(date_string) ==
    IF StrptimeDayFirst(date_string) # NaT THEN StrptimeDayFirst(date_string)
    ELSE IF to_datetime(date_string) # NaT THEN to_datetime(date_string)
    ELSE to_datetime(date_string)

\* line 97: the column converted
ConvertDates(rows) ==
    [k \in DOMAIN rows |->
        [rows[k] EXCEPT !.Test_date_time = to_datetime(rows[k].Test_date_time)]]

\* dropna() with no subset: a row with any null value is dropped
dropnaAnyColumn(rows) ==
    SelectSeq(rows, LAMBDA r : r.Test_date_time # NaT
                               /\ \A n \in FieldNames \ {"Test_date_time"} : r[n] # Null)

\* line 98: dropna(subset=['Test_date_time'])
dropna(rows) == SelectSeq(rows, LAMBDA r : r.Test_date_time # NaT)

\* lines 101-102: the Month and Week columns
AddKeys(rows) ==
    [k \in DOMAIN rows |->
        rows[k] @@ [Month |-> StrftimeMonth(rows[k].Test_date_time),
                    Week |-> StrftimeWeek(rows[k].Test_date_time)]]

-----------------------------------------------------------------------------
(* A DataFrame, or None.                                                   *)

NoneDF == [isNone |-> TRUE, rows |-> <<>>]
DF(rows) == [isNone |-> FALSE, rows |-> rows]

\* lines 89-104: None when no file was kept, else the combined table
Combine(tables) ==
    IF tables = <<>> THEN NoneDF
    ELSE DF(AddKeys(dropna(ConvertDates(concat(tables)))))

\* lines 25-104
load_and_process_csv(files) ==
    IF files = <<>> THEN NoneDF ELSE Combine(AllData(files, 1))

-----------------------------------------------------------------------------
(* Helpers of the aggregation functions.                                   *)

\* the truth value Python gives a filter argument: None and '' are false,
\* and so is the None that stands in a column the fallback filled
Truthy(x) == x # None /\ x # "" /\ x # Null

\* pandas' ==: a null cell equals nothing, not even a null
PdEq(a, b) == a # Null /\ b # Null /\ a = b

\* a profile filter that keeps every row
FilterProfileKeepAll(rows, profile_id) == rows

\* lines 132-133 (and 202-203, 240-241, 280-281): the profile filter
FilterProfile(rows, profile_id) ==
    IF Truthy(profile_id) /\ profile_id # "All"
    THEN SelectSeq(rows, LAMBDA r : PdEq(r.Profile_id, profile_id))
    ELSE rows

\* a lab filter that keeps every row
FilterLabKeepAll(rows, lab) == rows

\* lines 244-245 (and 284-285): the lab filter
FilterLab(rows, lab) ==
    IF Truthy(lab) /\ lab # "All Labs"
    THEN SelectSeq(rows, LAMBDA r : PdEq(r.Lab_name, lab))
    ELSE rows

\* Series.unique(): the distinct values in the order of their first
\* appearance, a null among them
RECURSIVE UniqueFrom(_, _)
UniqueFrom(values, seen) ==
    IF values = <<>> THEN <<>>
    ELSE IF Head(values) \in seen THEN UniqueFrom(Tail(values), seen)
    ELSE <<Head(values)>> \o UniqueFrom(Tail(values), seen \cup {Head(values)})

unique(values) == UniqueFrom(values, {})

Column(rows, n) == [k \in DOMAIN rows |-> rows[k][n]]

\* value_counts().get(v, 0), and len(df[df[n] == v])
CountEq(rows, n, v) == Cardinality({k \in DOMAIN rows : PdEq(rows[k][n], v)})

\* round(x, 2) of the quotient num/den, in hundredths: to the nearest, a
\* tie to the even neighbour
RoundHalfEven(num, den) ==
    LET q == num \div den
        r == num % den
    IN  IF 2 * r < den THEN q
        ELSE IF 2 * r > den THEN q + 1
        ELSE IF q % 2 = 0 THEN q ELSE q + 1

\* lines 143, 168, 177, 216, 316: (bad / total * 100) if total > 0 else 0,
\* then round(., 2)
Percent(bad, total) ==
    IF total > 0 THEN RoundHalfEven(bad * 10000, total) ELSE 0

\* a count that takes a row twice, by its status and by its result
BadCountBoth(rows) ==
    CountEq(rows, "Test_status", "Invalid") + CountEq(rows, "Test_status", "Indeterminate")
    + CountEq(rows, "Test_result", "Invalid") + CountEq(rows, "Test_result", "Indeterminate")

\* the rows that count as invalid or indeterminate
BadCount(rows) ==
    CountEq(rows, "Test_status", "Invalid") + CountEq(rows, "Test_status", "Indeterminate")

\* the first n rows in place of the last
tailFromHead(rows, n) ==
    IF Len(rows) <= n THEN rows ELSE SubSeq(rows, 1, n)

\* DataFrame.tail(n)
tail(rows, n) ==
    IF Len(rows) <= n THEN rows ELSE SubSeq(rows, Len(rows) - n + 1, Len(rows))

\* DataFrame.head(n)
head(rows, n) == IF Len(rows) <= n THEN rows ELSE SubSeq(rows, 1, n)

\* sort_values: the rows in the order of Less on their keys.  The default
\* sort (quicksort) is not stable: rows with equal keys come out in an
\* order the build decides, given here by tb, a ranking of the positions.
SortBy(rows, key(_), Less(_, _), tb) ==
    LET Before(i, j) ==
            \/ Less(key(rows[i]), key(rows[j]))
            \/ (~Less(key(rows[j]), key(rows[i])) /\ tb[i] < tb[j])
        Pos(i) == 1 + Cardinality({j \in DOMAIN rows : Before(j, i)})
    IN  [k \in DOMAIN rows |-> rows[CHOOSE i \in DOMAIN rows : Pos(i) = k]]

\* the rankings of n positions: every order of the rows with equal keys
TieOrders(n) ==
    {f \in [1..n -> 1..n] : \A i, j \in 1..n : i # j => f[i] # f[j]}

\* what a function returns: its empty-signal, a value, or an exception
AggNone == [kind |-> "none"]
AggRaise == [kind |-> "raise"]

-----------------------------------------------------------------------------
(* Lines 125-194: profile_id_analysis on the session's table.              *)

last_n == 10

LabRow(rows, lab_name) ==
    LET lab_df == SelectSeq(rows, LAMBDA r : PdEq(r.Lab_name, lab_name))
        last_10 == tail(lab_df, last_n)
    IN  [Lab_Name |-> lab_name,
         Truelab_ID |-> unique(Column(lab_df, "Truelab_id")),
         Total_Tests |-> Len(lab_df),
         Total_Detected |-> CountEq(lab_df, "Test_result", "Detected"),
         Total_Bad |-> BadCount(lab_df),
         Bad_Pct |-> Percent(BadCount(lab_df), Len(lab_df)),
         Last_10_Pct |-> IF last_10 # <<>>
                         THEN Percent(BadCount(last_10), Len(last_10))
                         ELSE 0]

ProfileSummary(rows) ==
    [Total_Runs |-> Len(rows),
     Total_Invalids |-> CountEq(rows, "Test_status", "Invalid"),
     Total_Indeterminates |-> CountEq(rows, "Test_status", "Indeterminate"),
     Overall_Pct |-> Percent(CountEq(rows, "Test_status", "Invalid")
                             + CountEq(rows, "Test_status", "Indeterminate"),
                             Len(rows))]

ProfileAnalysis(df, profile_id) ==
    IF df.isNone \/ df.rows = <<>> THEN AggNone
    ELSE LET rows == FilterProfile(df.rows, profile_id)
             labs == unique(Column(rows, "Lab_name"))
         IN  IF rows = <<>> THEN AggNone
             ELSE [kind |-> "value",
                   summary_data |-> ProfileSummary(rows),
                   lab_analysis |-> [k \in DOMAIN labs |-> LabRow(rows, labs[k])]]

-----------------------------------------------------------------------------
(* Lines 196-232: lot_specific_analysis.                                   *)

top_n == 20

LotRow(rows, lot_number) ==
    LET lot_df == SelectSeq(rows, LAMBDA r : PdEq(r.Lot, lot_number))
    IN  [Lot_Number |-> lot_number,
         Total_Runs |-> Len(lot_df),
         Total_Bad |-> BadCount(lot_df),
         Bad_Pct |-> Percent(BadCount(lot_df), Len(lot_df))]

LotTable(rows) ==
    LET lots == unique(Column(rows, "Lot"))
    IN  [k \in DOMAIN lots |-> LotRow(rows, lots[k])]

TotalRunsOf(row) == row.Total_Runs

\* a Top-20 view that takes the first 20 rows as they stand
TopLotsUnsorted(lot_df, tb) == head(lot_df, top_n)

\* line 229: sort_values('Total Runs', ascending=False).head(20)
TopLots(lot_df, tb) ==
    head(SortBy(lot_df, TotalRunsOf, LAMBDA a, b : a > b, tb), top_n)

lot_specific_analysis(df, profile_id, tb) ==
    IF df.isNone \/ df.rows = <<>> THEN AggNone
    ELSE LET rows == FilterProfile(df.rows, profile_id)
         IN  IF rows = <<>> THEN AggNone
             ELSE [kind |-> "value",
                   lot_df |-> LotTable(rows),
                   top_none |-> LotTable(rows) = <<>>,
                   top_lots |-> IF LotTable(rows) # <<>>
                                THEN TopLots(LotTable(rows), tb) ELSE <<>>]

-----------------------------------------------------------------------------
(* Lines 234-272: trend_analysis.                                          *)

\* the order of two keys as texts: 'YYYY-MM' and 'YYYY-WW' are zero padded,
\* so the texts compare as their parts do, and a text stands before the
\* texts it begins
KeyLess(a, b) ==
    \/ \E i \in 1..Len(a) :
          /\ \A j \in 1..(i - 1) : j <= Len(b) /\ a[j] = b[j]
          /\ i <= Len(b)
          /\ a[i] < b[i]
    \/ /\ Len(a) < Len(b)
       /\ \A j \in 1..Len(a) : a[j] = b[j]

Identity(n) == [i \in 1..n |-> i]

Self(x) == x

\* groupby(n): the distinct keys in ascending order
GroupKeys(rows, n) ==
    LET keys == unique(Column(rows, n))
    IN  SortBy(keys, Self, KeyLess, Identity(Len(keys)))

\* pd.to_datetime('<year>-W<week>-1', format='%Y-W%U-%w'): the Monday of
\* week `week` (Sunday first) of the year, as strptime computes it from the
\* weekday of 1 January
WeekMonday(year, week) ==
    LET jan1 == ToOrdinal(year, 1, 1)
        first_weekday == Weekday(jan1)
        week_0_length == (7 - first_weekday) % 7
        julian == IF week = 0 THEN 1 + 1 - first_weekday
                  ELSE 1 + week_0_length + 7 * (week - 1) + 1
    IN  jan1 + julian - 1

TrendRow(rows, n, key, date) ==
    LET g == SelectSeq(rows, LAMBDA r : r[n] = key)
    IN  [Date |-> date,
         Total_Runs |-> Cardinality({k \in DOMAIN g : g[k].Test_date_time # NaT}),
         Total_Invalid |-> CountEq(g, "Test_status", "Invalid"),
         Total_Indeterminate |-> CountEq(g, "Test_status", "Indeterminate"),
         Total_Invalid_Indeterminate |->
            CountEq(g, "Test_status", "Invalid") + CountEq(g, "Test_status", "Indeterminate")]

DateOf(row) == row.Date

\* lines 251-259
MonthlyTable(rows, tb) ==
    LET keys == GroupKeys(rows, "Month")
        t == [k \in DOMAIN keys |->
                TrendRow(rows, "Month", keys[k], ToOrdinal(keys[k][1], keys[k][2], 1))]
    IN  SortBy(t, DateOf, LAMBDA a, b : a < b, tb)

\* lines 262-270
WeeklyTable(rows, tb) ==
    LET keys == GroupKeys(rows, "Week")
        t == [k \in DOMAIN keys |->
                TrendRow(rows, "Week", keys[k], WeekMonday(keys[k][1], keys[k][2]))]
    IN  SortBy(t, DateOf, LAMBDA a, b : a < b, tb)

\* x.split('-')[1] raises IndexError for a key with no '-'
SplitRaises(key) == Len(key) < 2

\* %U takes the week numbers 00 to 53
WeekNumbers == 0..53

\* a conversion that takes every second part as a week number
StrptimeNeverRaises(key) == FALSE

\* pd.to_datetime(..., format='%Y-W%U-%w') raises ValueError for a key
\* whose second part is no week number
StrptimeRaises(key) == ~SplitRaises(key) /\ key[2] \notin WeekNumbers

trend_analysis(df, profile_id, lab, tb) ==
    IF df.isNone \/ df.rows = <<>> THEN AggNone
    ELSE LET rows == FilterLab(FilterProfile(df.rows, profile_id), lab)
         IN  IF rows = <<>> THEN AggNone
             ELSE IF \E k \in DOMAIN rows :
                        SplitRaises(rows[k].Week) \/ StrptimeRaises(rows[k].Week)
                  THEN AggRaise
             ELSE [kind |-> "value",
                   monthly_data |-> MonthlyTable(rows, tb),
                   weekly_data |-> WeeklyTable(rows, tb)]

-----------------------------------------------------------------------------
(* Lines 274-332: weekly_analysis.                                         *)

\* lines 296-307: 'DD-MM-YYYY to DD-MM-YYYY' from the Monday of the week to
\* six days later, or the label 'Week <key>' when the key has no second
\* part (IndexError) or none that is a week number (ValueError)
DateRange(week) ==
    IF SplitRaises(week) \/ StrptimeRaises(week)
    THEN [label |-> TRUE, start |-> <<>>, end |-> <<>>]
    ELSE [label |-> FALSE,
          start |-> StrftimeDMY(WeekMonday(week[1], week[2])),
          end |-> StrftimeDMY(WeekMonday(week[1], week[2]) + 6)]

WeekLabRow(week_df, week, lab_name) ==
    LET lab_week_df == SelectSeq(week_df, LAMBDA r : PdEq(r.Lab_name, lab_name))
    IN  [Week |-> week,
         Date_Range |-> DateRange(week),
         Lab_Name |-> lab_name,
         Total_Runs |-> Len(lab_week_df),
         Total_Bad |-> BadCount(lab_week_df),
         Bad_Pct |-> Percent(BadCount(lab_week_df), Len(lab_week_df))]

\* the rows of one week, one for each lab of the week in order of appearance
WeekRows(rows, week) ==
    LET week_df == SelectSeq(rows, LAMBDA r : r.Week = week)
        labs == unique(Column(week_df, "Lab_name"))
    IN  [k \in DOMAIN labs |-> WeekLabRow(week_df, week, labs[k])]

RECURSIVE WeekLabData(_, _)
WeekLabData(rows, weeks) ==
    IF weeks = <<>> THEN <<>>
    ELSE WeekRows(rows, Head(weeks)) \o WeekLabData(rows, Tail(weeks))

\* the lab names in the order of their texts; a null sorts last
LabOrder == <<"A", "B", "C">>

LabRank(lab_name) ==
    IF lab_name = Null THEN Len(LabOrder) + 1
    ELSE CHOOSE i \in DOMAIN LabOrder : LabOrder[i] = lab_name

LabNameOf(row) == row.Lab_Name

weekly_analysis(df, profile_id, lab, tb) ==
    IF df.isNone \/ df.rows = <<>> THEN AggNone
    ELSE LET rows == FilterLab(FilterProfile(df.rows, profile_id), lab)
             weeks == GroupKeys(rows, "Week")
         IN  IF rows = <<>> THEN AggNone
             ELSE IF \E k \in DOMAIN rows : SplitRaises(rows[k].Week) THEN AggRaise
             ELSE [kind |-> "value",
                   table |-> SortBy(WeekLabData(rows, weeks), LabNameOf,
                                    LAMBDA a, b : LabRank(a) < LabRank(b), tb)]

-----------------------------------------------------------------------------
(* Lines 112-113 and app.py 222-227: the cache in front of                 *)
(* profile_id_analysis, keyed by (df_hash, profile_id).           *)

maxsize == 32

\* the cells of a row in column order
ValuesOf(row) ==
    <<row.Test_date_time, row.Profile_id, row.Test_result, row.Test_status,
      row.Lab_name, row.Truelab_id, row.Lot, row.Month, row.Week>>

\* app.py 223: hash(tuple(map(tuple, data.values))), or None.  The hash is
\* taken as free of collisions: it stands for the tuple it is computed from.
df_hash(df) ==
    [isNone |-> df.isNone, values |-> [k \in DOMAIN df.rows |-> ValuesOf(df.rows[k])]]

\* a key that leaves the profile selection out
CacheKeyHashOnly(hash, profile_id) == <<hash>>

\* the key lru_cache makes of the call's arguments
CacheKey(hash, profile_id) == <<hash, profile_id>>

CacheHit(c, key) == \E k \in DOMAIN c : c[k].key = key

CacheGet(c, key) == c[CHOOSE k \in DOMAIN c : c[k].key = key].value

\* the cache after a call: the entry becomes the most recent one, and the
\* least recent one is dropped once more than maxsize are held
CachePut(c, key, value) ==
    LET others == SelectSeq(c, LAMBDA e : e.key # key)
        all == Append(others, [key |-> key, value |-> value])
    IN  tail(all, maxsize)

\* profile_id_analysis(hash, profile_id) with the session's table df
profile_id_analysis(c, df, hash, profile_id) ==
    IF CacheHit(c, CacheKey(hash, profile_id))
    THEN CacheGet(c, CacheKey(hash, profile_id))
    ELSE ProfileAnalysis(df, profile_id)

-----------------------------------------------------------------------------
(* The session state of app.py (lines 62-74) and the record of a call.     *)

SessionDefaults ==
    /\ data = NoneDF
    /\ profile_ids = <<>>
    /\ lab_names = <<>>
    /\ selected_profile_id = "All"
    /\ selected_lab = "All Labs"
    /\ current_page = "home"

NoView == [fn |-> "none"]

\* a call of function fn on table df with filters p and l, found in the
\* cache or not, and what it returned
View(fn, df, p, l, hit, result) ==
    [fn |-> fn, df |-> df, p |-> p, l |-> l, hit |-> hit, result |-> result]

-----------------------------------------------------------------------------
(* The inputs of the loader.                                               *)

\* the date texts of the inputs: 01-02-2024, 31-12-2023, 2024-01-07 (each
\* with a time) and not-a-date
DateCells ==
    {DateCell("dmy", 1, 2, 2024), DateCell("dmy", 31, 12, 2023),
     DateCell("iso", 1, 7, 2024), TextCell}

NamesLine == [t |-> "names", cell |-> TextCell]
BlankLine == [t |-> "blank", cell |-> NanCell]
DataLine(cell, raw) == [t |-> "data", cell |-> cell, raw |-> raw]
DataLines == {DataLine(c, RawRow) : c \in DateCells}
\* a first line: column names, empty cells, or (a file with no header line)
\* the first data line
FirstLines == {NamesLine, BlankLine, DataLine(DateCell("dmy", 1, 2, 2024), RawRow)}

\* the line sequences of exactly n lines
RECURSIVE LinesOfLen(_)
LinesOfLen(n) ==
    IF n = 0 THEN {<<>>}
    ELSE IF n = 1 THEN {<<l>> : l \in FirstLines}
    ELSE {Append(ls, l) : ls \in LinesOfLen(n - 1), l \in DataLines}

File(handle, width, lines) == [handle |-> handle, width |-> width, lines |-> lines]

\* the files of an upload are all buffers (what st.file_uploader hands
\* over) or all paths
Handles == {"buffer", "path"}

\* the widths of the files of a two-file upload
PairWidths == {6, 10}

-----------------------------------------------------------------------------
(* The loader applied to an upload.                                        *)

\* an upload of no file, of one file of any width, or of two files
InitLoad ==
    /\ pc = "start"
    /\ \/ uploaded_files = <<>>
       \/ \E h \in Handles, w \in 1..MaxWidth, k \in 0..(MaxLines - 1) :
            \E ls \in LinesOfLen(k) : uploaded_files = <<File(h, w, ls)>>
       \/ \E h \in Handles, w1, w2 \in PairWidths, k1 \in 0..MaxLines :
            \E k2 \in 0..(MaxLines - k1) :
                \E ls1 \in LinesOfLen(k1), ls2 \in LinesOfLen(k2) :
                    uploaded_files = <<File(h, w1, ls1), File(h, w2, ls2)>>
    /\ all_data = <<>>
    /\ loaded = NoneDF
    /\ SessionDefaults
    /\ cache = <<>>
    /\ view = NoView

Load ==
    /\ pc = "start"
    /\ pc' = "done"
    /\ all_data' = AllData(uploaded_files, 1)
    /\ loaded' = load_and_process_csv(uploaded_files)
    /\ UNCHANGED <<uploaded_files, session, cache, view>>

NextLoad == Load

SpecLoad == InitLoad /\ [][NextLoad]_vars

-----------------------------------------------------------------------------
(* Properties of the loader, checked under SpecLoad.                       *)

Range(seq) == {seq[k] : k \in DOMAIN seq}

\* the rows handed to the concatenation, in any order
InputRows == UNION {Range(all_data[t].rows) : t \in DOMAIN all_data}

\* the date text of the line a row came from
RawCell(src) == uploaded_files[src[1]].lines[src[2]].cell

\* file order, then line order within a file
SrcBefore(s, t) == s[1] < t[1] \/ (s[1] = t[1] /\ s[2] < t[2])

OtherFields == FieldNames \ {"Test_date_time"}

\* C4: the table load_and_process_csv returns holds exactly the rows handed
\* to the concatenation whose test time converts to a timestamp: every kept
\* row has a timestamp, no other row is dropped, the values of a row are
\* those of its source line, and the rows stand in file order and then in
\* line order within a file.
C4_DatasetIsTheParsedRowsInOrder ==
    (pc = "done" /\ ~loaded.isNone) =>
        /\ \A k \in DOMAIN loaded.rows : loaded.rows[k].Test_date_time # NaT
        /\ {loaded.rows[k].src : k \in DOMAIN loaded.rows}
              = {r.src : r \in {x \in InputRows : to_datetime(x.Test_date_time) # NaT}}
        /\ \A k \in DOMAIN loaded.rows :
              \E r \in InputRows :
                /\ r.src = loaded.rows[k].src
                /\ loaded.rows[k].Test_date_time = to_datetime(r.Test_date_time)
                /\ \A n \in OtherFields : loaded.rows[k][n] = r[n]
        /\ \A i, j \in DOMAIN loaded.rows :
              i < j => SrcBefore(loaded.rows[i].src, loaded.rows[j].src)

\* C4's case: rows of two files are kept and a row with no timestamp is dropped
C4_Witness ==
    /\ pc = "done"
    /\ ~loaded.isNone
    /\ \E i, j \in DOMAIN loaded.rows : loaded.rows[i].src[1] # loaded.rows[j].src[1]
    /\ \E r \in InputRows : to_datetime(r.Test_date_time) = NaT

\* C5: an input whose first read finds only auto-generated column names is
\* read again with no header, and every line of it, the first included, is
\* a row handed to the positional mapping: the input is not skipped.
C5_RereadDeliversEveryLine ==
    pc = "done" =>
        \A f \in DOMAIN uploaded_files :
            (/\ uploaded_files[f].lines # <<>>
             /\ HeaderMissing(read_csv(uploaded_files[f], FALSE, FALSE)))
            => \A l \in DOMAIN uploaded_files[f].lines :
                    \E r \in InputRows : r.src = <<f, l>>

\* the table all_data holds for file f, if it holds one
TablesOf(f) == {all_data[t] : t \in {u \in DOMAIN all_data : all_data[u].file = f}}

\* C6: a file narrower than 10 columns that was read is not dropped: its
\* table has one row for every row read, a field whose position lies within
\* the width carries the cell at that position, every other field is null.
C6_NarrowFileIsKeptWithNulls ==
    pc = "done" =>
        \A f \in DOMAIN uploaded_files :
            LET file == uploaded_files[f]
                frame == ReadFile(file)
            IN  (file.width < 10 /\ ~frame.raise) =>
                /\ Cardinality(TablesOf(f)) = 1
                /\ \A t \in TablesOf(f) :
                    /\ Len(t.rows) = Len(frame.rows)
                    /\ \A k \in DOMAIN t.rows :
                        /\ t.rows[k].src = <<f, frame.rows[k].line>>
                        /\ \A n \in FieldNames :
                            IF column_mapping[n] < file.width
                            THEN t.rows[k][n]
                                   = CellAt(file.lines[frame.rows[k].line], column_mapping[n])
                            ELSE t.rows[k][n] = Null

\* C6's case: a file of fewer than 10 columns gave a row with a null Lot
\* beside a field that kept its value
C6_Witness ==
    /\ pc = "done"
    /\ \E f \in DOMAIN uploaded_files :
        /\ uploaded_files[f].width < 10
        /\ uploaded_files[f].width > 5
        /\ \E t \in TablesOf(f) : \E k \in DOMAIN t.rows :
              t.rows[k].Lot = Null /\ t.rows[k].Lab_name = "A"

\* C7: the test time of a row is the result of the three attempts in their
\* order (day-month-year with time, then the generic parse, then the
\* permissive one): a DD-MM-YYYY HH:MM:SS text is read day first, and a row
\* is without a timestamp (and dropped) only if all three attempts fail.
C7_TestTimeIsParsedDayFirst ==
    (pc = "done" /\ ~loaded.isNone) =>
        /\ \A k \in DOMAIN loaded.rows :
              loaded.rows[k].Test_date_time = parse_date(RawCell(loaded.rows[k].src))
        /\ \A r \in InputRows :
              (\A k \in DOMAIN loaded.rows : loaded.rows[k].src # r.src)
              => parse_date(r.Test_date_time) = NaT

-----------------------------------------------------------------------------
(* The aggregation functions applied to a table of the builder.            *)

\* where a row was taken: lab, device, lot and day (31-12-2023 is a Sunday,
\* 01-01-2024 a Monday); the third is a degraded row of a narrow file
SiteA == [lab |-> "A", tl |-> "T1", lot |-> "L1", day |-> ToOrdinal(2023, 12, 31)]
SiteALater == [lab |-> "A", tl |-> "T1", lot |-> "L1", day |-> ToOrdinal(2024, 1, 1)]
SiteB == [lab |-> "B", tl |-> "T2", lot |-> "L2", day |-> ToOrdinal(2024, 1, 1)]
SiteNull == [lab |-> Null, tl |-> Null, lot |-> Null, day |-> ToOrdinal(2024, 2, 1)]

AggRow(profile, status, site) ==
    [Test_date_time |-> site.day, Profile_id |-> profile,
     Test_result |-> IF status = "Valid" THEN "Detected" ELSE status,
     Test_status |-> status, Lab_name |-> site.lab, Truelab_id |-> site.tl,
     Lot |-> site.lot, Month |-> StrftimeMonth(site.day),
     Week |-> StrftimeWeek(site.day)]

AggRows ==
    {AggRow("P1", "Invalid", SiteA), AggRow("P1", "Valid", SiteALater),
     AggRow("P1", "Indeterminate", SiteB), AggRow("P2", "Invalid", SiteB),
     AggRow("P1", "Valid", SiteNull)}

\* the filter arguments: absent, no filter, a value, a value no row has
ProfileArgs == {None, "All", "P1", "P3"}
LabArgs == {None, "All Labs", "A", "C"}

InitAgg ==
    /\ pc = "start"
    /\ uploaded_files = <<>>
    /\ all_data = <<>>
    /\ loaded = NoneDF
    /\ \/ data = NoneDF
       \/ \E n \in 0..MaxRows : \E rows \in [1..n -> AggRows] : data = DF(rows)
    /\ profile_ids = <<>>
    /\ lab_names = <<>>
    /\ selected_profile_id = "All"
    /\ selected_lab = "All Labs"
    /\ current_page = "home"
    /\ cache = <<>>
    /\ view = NoView

CallProfile ==
    /\ pc = "start"
    /\ pc' = "done"
    /\ \E p \in ProfileArgs :
        LET key == CacheKey(df_hash(data), p)
            result == profile_id_analysis(cache, data, df_hash(data), p)
        IN  /\ view' = View("profile", data, p, None, CacheHit(cache, key), result)
            /\ cache' = CachePut(cache, key, result)
    /\ UNCHANGED <<uploaded_files, all_data, loaded, session>>

CallLot ==
    /\ pc = "start"
    /\ pc' = "done"
    /\ \E p \in ProfileArgs, tb \in TieOrders(Len(data.rows)) :
        view' = View("lot", data, p, None, FALSE, lot_specific_analysis(data, p, tb))
    /\ UNCHANGED <<uploaded_files, all_data, loaded, session, cache>>

CallTrend ==
    /\ pc = "start"
    /\ pc' = "done"
    /\ \E p \in ProfileArgs, l \in LabArgs, tb \in TieOrders(Len(data.rows)) :
        view' = View("trend", data, p, l, FALSE, trend_analysis(data, p, l, tb))
    /\ UNCHANGED <<uploaded_files, all_data, loaded, session, cache>>

CallWeekly ==
    /\ pc = "start"
    /\ pc' = "done"
    /\ \E p \in ProfileArgs, l \in LabArgs, tb \in TieOrders(Len(data.rows)) :
        view' = View("weekly", data, p, l, FALSE, weekly_analysis(data, p, l, tb))
    /\ UNCHANGED <<uploaded_files, all_data, loaded, session, cache>>

NextAgg == CallProfile \/ CallLot \/ CallTrend \/ CallWeekly

SpecAgg == InitAgg /\ [][NextAgg]_vars

-----------------------------------------------------------------------------
(* The claims about the aggregation functions.                             *)

\* the records a call's filters select: a filter that is absent or "All"
\* ("All Labs") selects every record, any other value the records that carry it
Kept(rows, p, l) ==
    SelectSeq(rows, LAMBDA r :
        /\ (p \in {None, "All"} \/ r.Profile_id = p)
        /\ (l \in {None, "All Labs"} \/ r.Lab_name = l))

HowMany(rows, status) ==
    Cardinality({k \in DOMAIN rows : rows[k].Test_status = status})

\* pct, in hundredths, is bad/total*100 rounded to two decimals
IsRoundedPercent(pct, bad, total) ==
    LET d == pct * total - bad * 10000
    IN  /\ 2 * d <= total
        /\ 2 * d >= 0 - total

\* C1: for every dataset and every profile filter, the overall record of
\* the Profile Summary counts the filtered records, those with status
\* "Invalid" and those with status "Indeterminate", and its rate is
\* (invalid + indeterminate) / runs * 100 rounded to two decimals.
C1_SummaryCountsTheFilteredRecords ==
    view.fn = "profile" =>
        LET kept == Kept(view.df.rows, view.p, None)
        IN  kept # <<>> =>
                /\ view.result.kind = "value"
                /\ view.result.summary_data.Total_Runs = Len(kept)
                /\ view.result.summary_data.Total_Invalids = HowMany(kept, "Invalid")
                /\ view.result.summary_data.Total_Indeterminates
                       = HowMany(kept, "Indeterminate")
                /\ IsRoundedPercent(view.result.summary_data.Overall_Pct,
                                    HowMany(kept, "Invalid")
                                    + HowMany(kept, "Indeterminate"),
                                    Len(kept))

\* two Invalid and one Valid record of profile P1 give 3, 2, 0, 66.67
C1_Witness ==
    /\ view.fn = "profile"
    /\ view.p = "P1"
    /\ view.result.kind = "value"
    /\ view.result.summary_data
          = [Total_Runs |-> 3, Total_Invalids |-> 2,
             Total_Indeterminates |-> 0, Overall_Pct |-> 6667]

\* the groups of a result: the row count and the rate of each
Groups(result, fn) ==
    IF result.kind # "value" THEN {}
    ELSE IF fn = "profile"
    THEN {[n |-> result.summary_data.Total_Runs,
           pct |-> result.summary_data.Overall_Pct]}
         \cup {[n |-> r.Total_Tests, pct |-> r.Bad_Pct] : r \in Range(result.lab_analysis)}
         \cup {[n |-> r.Total_Tests, pct |-> r.Last_10_Pct] : r \in Range(result.lab_analysis)}
    ELSE IF fn = "lot"
    THEN {[n |-> r.Total_Runs, pct |-> r.Bad_Pct] : r \in Range(result.lot_df)}
         \cup {[n |-> r.Total_Runs, pct |-> r.Bad_Pct] : r \in Range(result.top_lots)}
    ELSE IF fn = "weekly"
    THEN {[n |-> r.Total_Runs, pct |-> r.Bad_Pct] : r \in Range(result.table)}
    ELSE {}

\* C2: for every dataset and every (profile, lab) filter, every rate of
\* profile_id_analysis (overall, per lab, last 10), lot_specific_analysis
\* and weekly_analysis lies in [0, 100] and is 0 when its group has no
\* row; no call ends in an exception.
C2_RatesAreWithinBounds ==
    view.fn \in {"profile", "lot", "weekly"} =>
        /\ view.result.kind # "raise"
        /\ \A g \in Groups(view.result, view.fn) :
              /\ g.pct \in 0..10000
              /\ (g.n = 0 => g.pct = 0)

\* a lab group without a row (the lab name is null) next to a full rate
C2_Witness ==
    /\ view.fn = "profile"
    /\ \E g \in Groups(view.result, view.fn) : g.n = 0 /\ g.pct = 0
    /\ \E g \in Groups(view.result, view.fn) : g.n > 0 /\ g.pct = 10000

\* C3: when the dataset is absent, empty, or empty after the profile or
\* the lab filter, each of the four functions returns its empty-signal
\* and does not raise.
C3_EmptyInputGivesTheEmptySignal ==
    view.fn \in {"profile", "lot", "trend", "weekly"} =>
        (Kept(view.df.rows, view.p, view.l) = <<>> => view.result.kind = "none")

\* a table with rows, none of them of the lab asked for
C3_Witness ==
    /\ view.fn = "weekly"
    /\ view.df.rows # <<>>
    /\ view.l = "C"
    /\ view.result.kind = "none"

\* C11: the table of weekly_analysis stands in the order of its lab names,
\* and rows of the same lab stand in the ascending order of their week
\* keys, the order in which they were made.
C11_WeeklySortIsStable ==
    (view.fn = "weekly" /\ view.result.kind = "value") =>
        LET t == view.result.table
        IN  \A i, j \in DOMAIN t :
                i < j =>
                    /\ LabRank(t[i].Lab_Name) <= LabRank(t[j].Lab_Name)
                    /\ (t[i].Lab_Name = t[j].Lab_Name => KeyLess(t[i].Week, t[j].Week))

\* the day a 'DD-MM-YYYY' text of a date range names
RangeDay(dmy) == ToOrdinal(dmy[3], dmy[2], dmy[1])

\* C13: in weekly_analysis the date range of a row spans the week of the
\* row: every record counted in the row (its week key and lab are the
\* row's) has its date between the start and the end of the range.
C13_DateRangeCoversTheWeek ==
    (view.fn = "weekly" /\ view.result.kind = "value") =>
        LET kept == Kept(view.df.rows, view.p, view.l)
        IN  \A r \in Range(view.result.table), k \in DOMAIN kept :
                (kept[k].Week = r.Week /\ kept[k].Lab_name = r.Lab_Name) =>
                    /\ ~r.Date_Range.label
                    /\ RangeDay(r.Date_Range.start) <= kept[k].Test_date_time
                    /\ kept[k].Test_date_time <= RangeDay(r.Date_Range.end)

RECURSIVE SumOfTests(_)
SumOfTests(lab_rows) ==
    IF lab_rows = <<>> THEN 0
    ELSE Head(lab_rows).Total_Tests + SumOfTests(Tail(lab_rows))

\* C16: the lab rows of profile_id_analysis partition the filtered
\* dataset: their Total Tests add up to the overall Total Runs and every
\* lab row has at least one test, also when records have no lab name.
C16_LabRowsPartitionTheRuns ==
    (view.fn = "profile" /\ view.result.kind = "value") =>
        /\ SumOfTests(view.result.lab_analysis) = view.result.summary_data.Total_Runs
        /\ \A r \in Range(view.result.lab_analysis) : r.Total_Tests >= 1

\* C17: in the weekly table of trend_analysis distinct week keys give
\* distinct dates: the table has one row for each week key of the
\* filtered dataset and its dates increase strictly.
C17_WeekKeysGiveDistinctDates ==
    (view.fn = "trend" /\ view.result.kind = "value") =>
        LET kept == Kept(view.df.rows, view.p, view.l)
            t == view.result.weekly_data
        IN  /\ Len(t) = Cardinality({kept[k].Week : k \in DOMAIN kept})
            /\ \A i, j \in DOMAIN t : i < j => t[i].Date < t[j].Date

-----------------------------------------------------------------------------
(* trend_analysis and weekly_analysis applied to a table made by hand,     *)
(* whose week keys need not be those of strftime('%Y-%U').                 *)

WithWeek(row, key) == [row EXCEPT !.Week = key]

\* rows of the builder, a row whose key is '2024' (no '-') and a row whose
\* key is '2024-99' (no week number)
KeyRows ==
    {AggRow("P1", "Invalid", SiteA), AggRow("P2", "Invalid", SiteB),
     WithWeek(AggRow("P1", "Valid", SiteB), <<2024>>),
     WithWeek(AggRow("P1", "Valid", SiteB), <<2024, 99>>)}

InitKeys ==
    /\ pc = "start"
    /\ uploaded_files = <<>>
    /\ all_data = <<>>
    /\ loaded = NoneDF
    /\ \/ data = NoneDF
       \/ \E n \in 0..MaxRows : \E rows \in [1..n -> KeyRows] : data = DF(rows)
    /\ profile_ids = <<>>
    /\ lab_names = <<>>
    /\ selected_profile_id = "All"
    /\ selected_lab = "All Labs"
    /\ current_page = "home"
    /\ cache = <<>>
    /\ view = NoView

NextKeys == CallTrend \/ CallWeekly

SpecKeys == InitKeys /\ [][NextKeys]_vars

\* a key that is not a year and a week number
Malformed(key) == Len(key) # 2 \/ key[2] \notin 0..53

\* C12: trend_analysis returns the empty-signal for both tables or both
\* tables populated: both have a row when the filtered dataset has one,
\* and a week key that fails to convert ends the call with neither table.
C12_TrendTablesComeTogether ==
    view.fn = "trend" =>
        LET kept == Kept(view.df.rows, view.p, view.l)
            failed == \E k \in DOMAIN kept : Malformed(kept[k].Week)
        IN  /\ kept = <<>> => view.result.kind = "none"
            /\ (kept # <<>> /\ ~failed) =>
                    /\ view.result.kind = "value"
                    /\ view.result.monthly_data # <<>>
                    /\ view.result.weekly_data # <<>>
            /\ (kept # <<>> /\ failed) => view.result.kind = "raise"

\* both tables with two rows: records of December and of January
C12_Witness ==
    /\ view.fn = "trend"
    /\ view.result.kind = "value"
    /\ Len(view.result.monthly_data) = 2
    /\ Len(view.result.weekly_data) = 2

\* C14: with a week key that is not a year and a week number,
\* weekly_analysis still returns a table, in which the rows of that key
\* carry the label 'Week <key>' in place of a date range; it does not raise.
C14_MalformedWeekKeyGetsALabel ==
    (view.fn = "weekly" /\ Kept(view.df.rows, view.p, view.l) # <<>>) =>
        /\ view.result.kind = "value"
        /\ \A r \in Range(view.result.table) :
              Malformed(r.Week) => r.Date_Range.label

-----------------------------------------------------------------------------
(* The application: app.py run after run.  Every action is one             *)
(* interaction of the user with a widget on the screen and the script run  *)
(* it triggers; pc is the page whose widgets the last run put on screen.   *)

Pages == {"profile_id_analysis", "lot_analysis", "trend_analysis", "weekly_analysis"}

\* the order of the texts that sorted() compares
TextOrder == <<"A", "B", "C", "P1", "P2", "P3">>

\* sorted() raises TypeError when a null stands among texts
SortedRaises(values) ==
    Null \in Range(values) /\ Cardinality(Range(values)) > 1

Sorted(values) ==
    IF Null \in Range(values) THEN values
    ELSE SelectSeq(TextOrder, LAMBDA x : x \in Range(values))

\* utils.py 106-110
get_profile_ids(df) ==
    IF df.isNone THEN <<>> ELSE Sorted(unique(Column(df.rows, "Profile_id")))

\* the uploads of the user: files with column names and data lines.  The
\* first has every column; the second has five, so that its rows have no
\* lab, device and lot; the third has no line with a date.  Uploaded
\* together, the first two give a table with lab names and nulls.
Jan1 == DateCell("iso", 1, 1, 2024)

FileA ==
    File("buffer", 10, <<NamesLine, DataLine(Jan1, Raw("P1", "Invalid", "Invalid")),
                         DataLine(Jan1, Raw("P2", "Detected", "Valid"))>>)
FileB ==
    File("buffer", 5, <<NamesLine, DataLine(Jan1, Raw("P1", "Detected", "Valid")),
                        DataLine(Jan1, Raw("P1", "Detected", "Valid"))>>)
FileBad ==
    File("buffer", 10, <<NamesLine, DataLine(TextCell, RawRow)>>)

Uploads == {<<FileA>>, <<FileB>>, <<FileA, FileB>>, <<FileBad>>}

Init ==
    /\ pc = "home"
    /\ uploaded_files = <<>>
    /\ all_data = <<>>
    /\ loaded = NoneDF
    /\ SessionDefaults
    /\ cache = <<>>
    /\ view = NoView

\* lines 425-437 of app.py: the page the run renders, with table d and
\* filters p and l
RenderPage(page, d, p, l) ==
    IF page = "home" \/ d.isNone
    THEN view' = NoView /\ cache' = cache
    ELSE IF page = "profile_id_analysis"
    THEN LET key == CacheKey(df_hash(d), p)
             result == profile_id_analysis(cache, d, df_hash(d), p)
         IN  /\ view' = View("profile", d, p, None, CacheHit(cache, key), result)
             /\ cache' = CachePut(cache, key, result)
    ELSE /\ cache' = cache
         /\ \E tb \in TieOrders(Len(d.rows)) :
              view' = CASE page = "lot_analysis" ->
                             View("lot", d, p, None, FALSE, lot_specific_analysis(d, p, tb))
                        [] page = "trend_analysis" ->
                             View("trend", d, p, l, FALSE, trend_analysis(d, p, l, tb))
                        [] OTHER ->
                             View("weekly", d, p, l, FALSE, weekly_analysis(d, p, l, tb))

\* app.py 171-186: files are put in the uploader of the home page
Upload ==
    /\ pc = "home" /\ current_page = "home"
    /\ \E files \in Uploads :
        LET d == load_and_process_csv(files)
            ok == ~d.isNone /\ d.rows # <<>>
            ids == unique(Column(d.rows, "Profile_id"))
            labs == unique(Column(d.rows, "Lab_name"))
        IN  /\ uploaded_files' = files
            /\ all_data' = AllData(files, 1)
            /\ loaded' = d
            /\ data' = IF ok THEN d ELSE data
            /\ profile_ids' = IF ok /\ ~SortedRaises(ids)
                               THEN get_profile_ids(d) ELSE profile_ids
            /\ lab_names' = IF ok /\ ~SortedRaises(ids) /\ ~SortedRaises(labs)
                             THEN Sorted(labs) ELSE lab_names
    /\ view' = NoView
    /\ UNCHANGED <<pc, selected_profile_id, selected_lab, current_page, cache>>

\* app.py 194-204: a section button of the home page, shown in a run whose
\* load gave rows and whose sorted() calls did not raise.  navigate_to sets
\* the page; the run goes on with the home page.
NavigateFromHome ==
    /\ pc = "home" /\ current_page = "home"
    /\ uploaded_files # <<>> /\ ~loaded.isNone /\ loaded.rows # <<>>
    /\ ~SortedRaises(unique(Column(loaded.rows, "Profile_id")))
    /\ ~SortedRaises(unique(Column(loaded.rows, "Lab_name")))
    /\ \E page \in Pages : current_page' = page
    /\ view' = NoView
    /\ UNCHANGED <<pc, uploaded_files, all_data, loaded, data, profile_ids, lab_names,
                   selected_profile_id, selected_lab, cache>>

\* any interaction that only makes the script run again: the run renders
\* the current page, and an uploader that is no longer on screen loses
\* its files
Rerun ==
    /\ pc' = current_page
    /\ uploaded_files' = IF current_page = "home" THEN uploaded_files ELSE <<>>
    /\ RenderPage(current_page, data, selected_profile_id, selected_lab)
    /\ UNCHANGED <<all_data, loaded, session>>

\* a Home button that leaves the filters as they are
GoHomeKeepFilters ==
    /\ pc # "home"
    /\ current_page' = "home"
    /\ pc' = "home"
    /\ uploaded_files' = <<>>
    /\ view' = NoView
    /\ UNCHANGED <<all_data, loaded, data, profile_ids, lab_names, cache,
                   selected_profile_id, selected_lab>>

\* app.py 77-84 with page = 'home': a Home button of the sidebar or of a
\* page; the filters are reset and the script runs again
GoHome ==
    /\ pc # "home"
    /\ current_page' = "home"
    /\ selected_profile_id' = "All"
    /\ selected_lab' = "All Labs"
    /\ pc' = "home"
    /\ uploaded_files' = <<>>
    /\ view' = NoView
    /\ UNCHANGED <<all_data, loaded, data, profile_ids, lab_names, cache>>

\* app.py 135-145: a section button of the sidebar; the same run renders
\* the page
NavigateSidebar ==
    /\ pc # "home" /\ ~data.isNone
    /\ \E page \in Pages :
        /\ current_page' = page
        /\ pc' = page
        /\ RenderPage(page, data, selected_profile_id, selected_lab)
    /\ UNCHANGED <<uploaded_files, all_data, loaded, data, profile_ids, lab_names,
                   selected_profile_id, selected_lab>>

\* app.py 108-117: the profile selector of the sidebar
SelectProfile ==
    /\ pc # "home" /\ ~data.isNone
    /\ \E p \in {"All"} \cup Range(profile_ids) :
        /\ p # selected_profile_id
        /\ selected_profile_id' = p
        /\ RenderPage(current_page, data, p, selected_lab)
    /\ UNCHANGED <<pc, uploaded_files, all_data, loaded, data, profile_ids, lab_names,
                   selected_lab, current_page>>

\* app.py 119-130: the lab selector of the sidebar
SelectLab ==
    /\ pc # "home" /\ ~data.isNone /\ lab_names # <<>>
    /\ \E l \in {"All Labs"} \cup Range(lab_names) :
        /\ l # selected_lab
        /\ selected_lab' = l
        /\ RenderPage(current_page, data, selected_profile_id, l)
    /\ UNCHANGED <<pc, uploaded_files, all_data, loaded, data, profile_ids, lab_names,
                   selected_profile_id, current_page>>

Next ==
    \/ Upload
    \/ NavigateFromHome
    \/ Rerun
    \/ GoHome
    \/ NavigateSidebar
    \/ SelectProfile
    \/ SelectLab

Spec == Init /\ [][Next]_vars

-----------------------------------------------------------------------------
(* The claim about the cache, checked under Spec.                          *)

\* C18: after any sequence of uploads, navigations and selections the
\* selected profile is "All" or a profile id of the table the session
\* holds, the selected lab is "All Labs" or a lab name of that table, both
\* are at these defaults while the current page is 'home', and the table
\* is replaced on no other page.
C18_FiltersFitTheDataset ==
    /\ [](/\ \/ selected_profile_id = "All"
             \/ \E k \in DOMAIN data.rows : data.rows[k].Profile_id = selected_profile_id
          /\ \/ selected_lab = "All Labs"
             \/ \E k \in DOMAIN data.rows : data.rows[k].Lab_name = selected_lab
          /\ current_page = "home" =>
                (selected_profile_id = "All" /\ selected_lab = "All Labs"))
    /\ [][data' # data => (current_page = "home" /\ current_page' = "home")]_vars

\* both filters set on a table that replaced another one: the cache still
\* holds a result of the earlier table
C18_Witness ==
    /\ selected_profile_id = "P2"
    /\ selected_lab = "A"
    /\ current_page # "home"
    /\ \E e \in Range(cache) : e.key[1] # df_hash(data)

-----------------------------------------------------------------------------
(* lot_specific_analysis applied to a table of many lots.                  *)

LotNames ==
    <<"L01", "L02", "L03", "L04", "L05", "L06", "L07", "L08", "L09", "L10",
      "L11", "L12", "L13", "L14", "L15", "L16", "L17", "L18", "L19", "L20",
      "L21", "L22", "L23", "L24">>

\* a run of lot `lot`
RunOf(lot, status) ==
    AggRow("P1", status, [lab |-> "A", tl |-> "T1", lot |-> lot,
                          day |-> ToOrdinal(2024, 1, 1)])

\* one run of each of the first n lots in the order of their names, then
\* a second run of each lot of `heavy`, then, with withNull, a run whose
\* lot cell is empty
LotRuns(n, heavy, withNull) ==
    [k \in 1..n |-> RunOf(LotNames[k], "Valid")]
    \o [k \in 1..Cardinality(heavy) |->
          RunOf(LotNames[CHOOSE h \in heavy :
                           Cardinality({g \in heavy : g < h}) = k - 1], "Invalid")]
    \o (IF withNull THEN <<RunOf(Null, "Valid")>> ELSE <<>>)

\* the lots that may have a second run: the first, those about the 20th
\* row of the table, and the last
HeavyAt(n) == {1, top_n - 1, top_n, top_n + 1, n} \cap 1..n

\* the rankings that decide between rows of equal keys: every rotation of
\* the positions (the one by 0 keeps the order of the table) and the reverse
TieRankings(n) ==
    {[i \in 1..n |-> ((i - 1 + k) % n) + 1] : k \in 0..(n - 1)}
    \cup {[i \in 1..n |-> n + 1 - i]}

InitLot ==
    /\ pc = "start"
    /\ uploaded_files = <<>>
    /\ all_data = <<>>
    /\ loaded = NoneDF
    /\ \E n \in (top_n - 1)..MaxLots, withNull \in BOOLEAN :
         \E heavy \in SUBSET HeavyAt(n) :
            /\ Cardinality(heavy) <= 2
            /\ data = DF(LotRuns(n, heavy, withNull))
    /\ profile_ids = <<>>
    /\ lab_names = <<>>
    /\ selected_profile_id = "All"
    /\ selected_lab = "All Labs"
    /\ current_page = "home"
    /\ cache = <<>>
    /\ view = NoView

CallTopLots ==
    /\ pc = "start"
    /\ pc' = "done"
    /\ \E tb \in TieRankings(Len(data.rows)) :
        view' = View("lot", data, "P1", None, FALSE, lot_specific_analysis(data, "P1", tb))
    /\ UNCHANGED <<uploaded_files, all_data, loaded, session, cache>>

NextLot == CallTopLots

SpecLot == InitLot /\ [][NextLot]_vars

\* the least of two numbers
Min(a, b) == IF a <= b THEN a ELSE b

\* the lot values of the records, an empty cell among them
DistinctLots(rows) == {rows[k].Lot : k \in DOMAIN rows}

\* C9: for every filtered dataset that is not empty, the Top-20 view has
\* min(20, number of distinct lots) rows, its rows are rows of the Lot
\* Summary, no row left out has more runs than a row taken, and the rows
\* stand in non-increasing order of their runs.
C9_TopLotsAreTheLargestInOrder ==
    (view.fn = "lot" /\ Kept(view.df.rows, view.p, None) # <<>>) =>
        LET kept == Kept(view.df.rows, view.p, None)
            top == view.result.top_lots
            all == Range(view.result.lot_df)
        IN  /\ view.result.kind = "value"
            /\ ~view.result.top_none
            /\ Len(top) = Min(top_n, Cardinality(DistinctLots(kept)))
            /\ Cardinality(Range(top)) = Len(top)
            /\ Range(top) \subseteq all
            /\ \A t \in Range(top), r \in all \ Range(top) : t.Total_Runs >= r.Total_Runs
            /\ \A i, j \in DOMAIN top : i < j => top[i].Total_Runs >= top[j].Total_Runs

\* more than 20 lots, a lot with two runs that stands after the 20th row
\* of the Lot Summary, and an order of the ties other than the table's
C9_Witness ==
    /\ view.fn = "lot"
    /\ view.result.kind = "value"
    /\ Len(view.result.lot_df) > top_n
    /\ Len(view.result.top_lots) = top_n
    /\ view.result.lot_df[top_n + 1].Total_Runs = 2
    /\ view.result.top_lots[1] = view.result.lot_df[top_n + 1]
    /\ view.result.top_lots[top_n].Total_Runs = 1
    /\ view.result.top_lots[top_n] # view.result.lot_df[top_n]

\* the position of the first record of a lot
FirstAppearance(rows, lot) ==
    CHOOSE k \in DOMAIN rows :
        rows[k].Lot = lot /\ \A j \in 1..(k - 1) : rows[j].Lot # lot

\* C10: in the Top-20 view, lots of equal runs stand in the order of their
\* first appearance in the filtered dataset, and where the 20th row cuts
\* through lots of equal runs the ones that appear first are taken.
C10_TiesKeepFirstAppearance ==
    (view.fn = "lot" /\ view.result.kind = "value") =>
        LET kept == Kept(view.df.rows, view.p, None)
            top == view.result.top_lots
            First(r) == FirstAppearance(kept, r.Lot_Number)
        IN  /\ \A i, j \in DOMAIN top :
                  (i < j /\ top[i].Total_Runs = top[j].Total_Runs)
                      => First(top[i]) < First(top[j])
            /\ \A t \in Range(top), r \in Range(view.result.lot_df) \ Range(top) :
                  t.Total_Runs = r.Total_Runs => First(t) < First(r)

-----------------------------------------------------------------------------
(* profile_id_analysis applied to a table with many records of one lab.    *)

\* the k-th of n records of lab "A": one day apart, the days rising with
\* the rows or falling
RunAt(k, n, bad, rising) ==
    AggRow("P1", IF k \in bad THEN "Invalid" ELSE "Valid",
           [lab |-> "A", tl |-> "T1", lot |-> "L1",
            day |-> ToOrdinal(2024, 1, 1) + (IF rising THEN k ELSE n - k)])

\* n records of lab "A", those at the positions `bad` invalid, and, with
\* withOther, an invalid record of lab "B" after them
LabRuns(n, bad, rising, withOther) ==
    [k \in 1..n |-> RunAt(k, n, bad, rising)]
    \o (IF withOther THEN <<AggRow("P1", "Invalid", SiteB)>> ELSE <<>>)

\* the positions that may be invalid: the first, the last outside the last
\* 10, the first inside them, and the last
BadAt(n) == {1, n - last_n, n - last_n + 1, n} \cap 1..n

InitLast ==
    /\ pc = "start"
    /\ uploaded_files = <<>>
    /\ all_data = <<>>
    /\ loaded = NoneDF
    /\ \E n \in (last_n - 1)..MaxRuns, rising \in BOOLEAN, withOther \in BOOLEAN :
         \E bad \in SUBSET BadAt(n) : data = DF(LabRuns(n, bad, rising, withOther))
    /\ profile_ids = <<>>
    /\ lab_names = <<>>
    /\ selected_profile_id = "All"
    /\ selected_lab = "All Labs"
    /\ current_page = "home"
    /\ cache = <<>>
    /\ view = NoView

NextLast == CallProfile

SpecLast == InitLast /\ [][NextLast]_vars

\* the records of a lab among the filtered records, in their order
RecordsOfLab(rows, lab_name) == SelectSeq(rows, LAMBDA r : r.Lab_name = lab_name)

\* C15: the last-10 rate of a lab row is the rate over the last min(10, n)
\* of the lab's n records in the order of the dataset, whatever their
\* test times.
C15_LastTenAreTheLastInDatasetOrder ==
    (view.fn = "profile" /\ view.result.kind = "value") =>
        \A r \in Range(view.result.lab_analysis) :
            LET recs == RecordsOfLab(Kept(view.df.rows, view.p, None), r.Lab_Name)
                m == Min(last_n, Len(recs))
                window == (Len(recs) - m + 1)..Len(recs)
                bad == Cardinality({k \in window :
                                      recs[k].Test_status \in {"Invalid", "Indeterminate"}})
            IN  m > 0 => IsRoundedPercent(r.Last_10_Pct, bad, m)

\* a lab of more than 10 records whose days fall with the rows and whose
\* only invalid record is the first: 0 over the last 10, not over all
C15_Witness ==
    /\ view.fn = "profile"
    /\ view.result.kind = "value"
    /\ \E k \in DOMAIN view.df.rows : k > 1 /\
          view.df.rows[k].Test_date_time < view.df.rows[k - 1].Test_date_time
    /\ \E r \in Range(view.result.lab_analysis) :
          /\ r.Total_Tests > last_n
          /\ r.Bad_Pct > 0
          /\ r.Last_10_Pct = 0

=============================================================================
